---------------------------- MODULE Spec2Model ----------------------------
(***************************************************************************)
(* The two PID force-feedback example programs of the repository:         *)
(*   "main" is  src/PID effects example/main.c  (main, lines 129-496)      *)
(*   "part" is  src/unnamed/part_000            (main, lines 176-472)      *)
(* Each program is a straight-line script of HID transport calls on one   *)
(* 256-byte buffer.  A caller c is one run of one program.  The device     *)
(* (the effect-block pool behind reports 0x11/0x12) and the wire trace     *)
(* `log` are shared by the callers.                                        *)
(***************************************************************************)
EXTENDS Integers, Sequences, FiniteSets

VARIABLES
    prog,    \* prog[c]  : which program caller c runs
    pc,      \* pc[c]    : the statement caller c is about to execute
    buf,     \* buf[c]   : unsigned char buf[256]
    index,   \* index[c] : unsigned char index
    res,     \* res[c]   : int res, the result of the last transport call
    i,       \* i[c]     : int i, the counter of main
    j,       \* j[c]     : the inner "int i" that shadows i inside the loops
    ret,     \* ret[c]   : the value main returned (meaningful at "returned")
    dev,     \* the device: allocated effect blocks and the pending Block Load
    log,     \* the transport calls made so far, consecutive repeats counted
    arg,     \* the argument of the function under check (0 in a run of main)
    val      \* the value computed for it (0 in a run of main)

vars == <<prog, pc, buf, index, res, i, j, ret, dev, log, arg, val>>

----------------------------------------------------------------------------
(* Program constants *)

BUF_SIZE == 256
PID_POOL_REPORT_ID == 19
PID_DEVICE_CONTROL_REPORT_ID == 12
DEVICE_GAIN_REPORT_ID == 13
CREATE_NEW_EFFECT_REPORT_ID == 17
PID_BLOCK_LOAD_REPORT_ID == 18
SET_CONSTANT_FORCE_REPORT_ID == 5
SET_ENVELOPE_REPORT_ID == 2
SET_EFFECT_REPORT_ID == 1
EFFECT_OPERATION_REPORT_ID == 10
BLOCK_FREE_REPORT_ID == 11

DC_DEVICE_RESET == 8
DC_STOP_ALL_EFFECTS == 4
DEVICE_GAIN_FULL == 255
ET_CONSTANT_FORCE == 1
OP_EFFECT_START == 1
OP_EFFECT_STOP == 3

BLOCK_INDEX_MIN == 1
BLOCK_INDEX_MAX == 10
BLOCK_LOAD_SUCCESS == 1
BLOCK_LOAD_FULL == 2
BLOCK_LOAD_ERROR == 3

FEATURE_GET_LEN == 19
OUTER_ITERATIONS == 10
INNER_ITERATIONS == 100

----------------------------------------------------------------------------
(* The buffer *)

\* memset(buf, 0x00, sizeof(buf)) followed by buf[0] = s[1], buf[1] = s[2], ...
Build(s) ==
    [k \in 0..(BUF_SIZE - 1) |-> IF k < Len(s) THEN s[k + 1] ELSE 0]

\* the first len bytes of b, what a transport call of that length transmits
Sent(b, len) ==
    [k \in 1..len |-> b[k - 1]]

\* what hid_get_feature_report(handle, buf, len) leaves in the buffer when the
\* device answers r: at most len bytes of r, the rest of the buffer untouched
Received(b, r, len) ==
    [k \in 0..(BUF_SIZE - 1) |-> IF k < Len(r) /\ k < len THEN r[k + 1] ELSE b[k]]

DeviceControlBuf(flags) ==
    Build(<<PID_DEVICE_CONTROL_REPORT_ID, flags>>)

\* mutant: the gain byte of a signed reading of "full", 0x7f
DeviceGainBuf_SignedFull ==
    Build(<<DEVICE_GAIN_REPORT_ID, 127>>)

DeviceGainBuf ==
    Build(<<DEVICE_GAIN_REPORT_ID, DEVICE_GAIN_FULL>>)

CreateNewEffectBuf ==
    Build(<<CREATE_NEW_EFFECT_REPORT_ID, ET_CONSTANT_FORCE>>)

FeatureRequestBuf(id) ==
    Build(<<id>>)

\* mutant: the report is filled in without the memset before it
SetConstantForceBuf_NoMemset(idx, lo, hi) ==
    [k \in 0..(BUF_SIZE - 1) |->
        IF k < 4 THEN <<SET_CONSTANT_FORCE_REPORT_ID, idx, lo, hi>>[k + 1]
        ELSE buf[1][k]]

SetConstantForceBuf(idx, lo, hi) ==
    Build(<<SET_CONSTANT_FORCE_REPORT_ID, idx, lo, hi>>)

SetEnvelopeBuf(idx) ==
    Build(<<SET_ENVELOPE_REPORT_ID, idx, 0, 0, 0, 0, 0, 0, 0, 0, 0, 0, 0, 0>>)

\* mutant: the two direction X bytes in the other order
SetEffectBuf_DirectionHighFirst(idx) ==
    Build(<<SET_EFFECT_REPORT_ID, idx, 1, 255, 255, 0, 0, 0, 0, 0, 0,
            255, 255, 4, 35, 40, 0, 0, 0, 0, 0, 0>>)

\* mutant: the enable bits packed from the top of the flags byte
SetEffectBuf_FlagsFromTop(idx) ==
    Build(<<SET_EFFECT_REPORT_ID, idx, 1, 255, 255, 0, 0, 0, 0, 0, 0,
            255, 255, 32, 40, 35, 0, 0, 0, 0, 0, 0>>)

SetEffectBuf(idx) ==
    Build(<<SET_EFFECT_REPORT_ID, idx, 1, 255, 255, 0, 0, 0, 0, 0, 0,
            255, 255, 4, 40, 35, 0, 0, 0, 0, 0, 0>>)

EffectOperationBuf(idx) ==
    Build(<<EFFECT_OPERATION_REPORT_ID, idx, OP_EFFECT_START>>)

\* the magnitude bytes of the first SET_CONSTANT_FORCE report
InitialMagnitude(p) ==
    IF p = "main" THEN <<0, 0>> ELSE <<205, 12>>

\* mutant: the two magnitude bytes of the positive half in the other order
PositiveMagnitude_Swapped == <<5, 220>>

PositiveMagnitude == <<220, 5>>
NegativeMagnitude == <<36, 250>>
\* mutant: the closing loop resends the last positive magnitude
ZeroMagnitude_Stale == <<220, 5>>

ZeroMagnitude == <<0, 0>>

----------------------------------------------------------------------------
(* The order of the statements of main *)

\* The statements of each program in source order.  "loop" is the force
\* shaping loop (its inner positions are "outer", "pos", "neg"), "zero" the
\* closing zero-magnitude loop of part_000 (inner position "zerowr").
MainOrder ==
    <<"init", "open", "devctl", "gain", "create", "blockload",
      "readindex", "scf0", "env", "seteffect", "start", "loop",
      "stopall", "close", "exit", "returned">>

PartOrder ==
    <<"init", "open", "pool", "devctl", "gain", "create", "blockload",
      "readindex", "scf0", "env", "seteffect", "start", "loop",
      "zero", "close", "exit", "returned">>

\* o with the statements a and b exchanged
Swapped(o, a, b) ==
    [k \in 1..Len(o) |-> IF o[k] = a THEN b ELSE IF o[k] = b THEN a ELSE o[k]]

\* mutant: SET_EFFECT_REPORT written before SET_ENVELOPE_REPORT
Order_EffectBeforeEnvelope(p) ==
    Swapped(IF p = "main" THEN MainOrder ELSE PartOrder, "env", "seteffect")

\* mutant: DEVICE_GAIN_REPORT written between the Create New Effect send and
\* the Block Load get
Order_GainAfterCreate(p) ==
    Swapped(IF p = "main" THEN MainOrder ELSE PartOrder, "gain", "create")

\* mutant: DEVICE_GAIN_REPORT written before the reset
Order_GainBeforeReset(p) ==
    Swapped(IF p = "main" THEN MainOrder ELSE PartOrder, "devctl", "gain")

\* mutant: EFFECT_OPERATION_REPORT (start) written before SET_EFFECT_REPORT
Order_StartBeforeSetEffect(p) ==
    Swapped(IF p = "main" THEN MainOrder ELSE PartOrder, "seteffect", "start")

Order(p) ==
    IF p = "main" THEN MainOrder ELSE PartOrder

\* the statement that follows statement l in program p
Succ(p, l) ==
    LET o == Order(p)
        k == CHOOSE n \in 1..Len(o) : o[n] = l
    IN  o[k + 1]

----------------------------------------------------------------------------
(* The wire trace *)

\* one transport call by caller c; a call identical to the previous one is
\* counted on the previous entry (field n) instead of being appended
Logged(c, op, data, resp) ==
    LET e == [c |-> c, op |-> op, data |-> data, resp |-> resp, n |-> 1]
    IN  IF log # <<>> /\ [log[Len(log)] EXCEPT !.n = 1] = e
        THEN [log EXCEPT ![Len(log)].n = @ + 1]
        ELSE Append(log, e)

----------------------------------------------------------------------------
(* The device *)

\* index bytes a Block Load response may carry when the status is not Success
FailIndexBytes == {0, BLOCK_INDEX_MIN, BLOCK_INDEX_MAX + 1}

FailedLoads ==
    {<<b, s>> : b \in FailIndexBytes, s \in {BLOCK_LOAD_FULL, BLOCK_LOAD_ERROR}}

\* the outcomes of Create New Effect on a device whose blocks a are in use:
\* a free block of 1..10 with status Success, or a failure
LoadOutcomes(a) ==
    {<<b, BLOCK_LOAD_SUCCESS>> : b \in (BLOCK_INDEX_MIN..BLOCK_INDEX_MAX) \ a}
        \cup FailedLoads

RamPoolAvailable == <<232, 3>>

\* the PID Block Load feature report for the pending load l
BlockLoadResponse(l) ==
    <<PID_BLOCK_LOAD_REPORT_ID, l[1], l[2]>> \o RamPoolAvailable

\* the PID Pool feature report: RAM pool size, simultaneous effects max, flags
PoolResponse ==
    <<PID_POOL_REPORT_ID, 255, 255, BLOCK_INDEX_MAX, 1>>

\* the device after a Device Control report with the given flags byte
DeviceControlled(d, flags) ==
    IF (flags \div DC_DEVICE_RESET) % 2 = 1
    THEN [d EXCEPT !.alloc = {}]
    ELSE d

\* the device after caller c's Create New Effect report whose outcome is r:
\* the Block Load report now describes this creation
Created(d, r, c) ==
    [alloc |-> IF r[2] = BLOCK_LOAD_SUCCESS THEN d.alloc \cup {r[1]} ELSE d.alloc,
     load  |-> r,
     by    |-> c]

----------------------------------------------------------------------------
(* The statements *)

\* the results hid_write / hid_send_feature_report can return for len bytes
WriteResults(len) == {-1, len}

Goto(c, l) == pc' = [pc EXCEPT ![c] = l]
Advance(c) == Goto(c, Succ(prog[c], pc[c]))

\* memset, fill, res = hid_write(handle, buf, len): the shared shape of the
\* output reports; the device sees the report when the write succeeds
WriteReport(c, b, len, r) ==
    /\ buf' = [buf EXCEPT ![c] = b]
    /\ res' = [res EXCEPT ![c] = r]
    /\ log' = Logged(c, "write", Sent(b, len), <<>>)

\* if (hid_init()) return -1;
HidInit(c) ==
    /\ pc[c] = "init"
    /\ \/ Advance(c) /\ UNCHANGED ret
       \/ Goto(c, "returned") /\ ret' = [ret EXCEPT ![c] = -1]
    /\ UNCHANGED <<arg, val, prog, buf, index, res, i, j, dev, log>>

\* handle = hid_open(...); if (!handle) { hid_exit(); return 1; }
HidOpen(c) ==
    /\ pc[c] = "open"
    /\ \/ Advance(c) /\ UNCHANGED <<ret, log>>
       \/ /\ Goto(c, "returned")
          /\ ret' = [ret EXCEPT ![c] = 1]
          /\ log' = Logged(c, "exit", <<>>, <<>>)
    /\ UNCHANGED <<arg, val, prog, buf, index, res, i, j, dev>>

\* part_000: the PID_POOL_REPORT feature get
PidPoolReport(c) ==
    /\ pc[c] = "pool"
    /\ LET b == FeatureRequestBuf(PID_POOL_REPORT_ID)
       IN  \/ /\ buf' = [buf EXCEPT ![c] = b]
              /\ res' = [res EXCEPT ![c] = -1]
              /\ log' = Logged(c, "get_feature", Sent(b, 1), <<>>)
              /\ UNCHANGED i
           \/ /\ buf' = [buf EXCEPT ![c] = Received(b, PoolResponse, FEATURE_GET_LEN)]
              /\ res' = [res EXCEPT ![c] = Len(PoolResponse)]
              /\ log' = Logged(c, "get_feature", Sent(b, 1), PoolResponse)
              /\ i' = [i EXCEPT ![c] = Len(PoolResponse)]
    /\ Advance(c)
    /\ UNCHANGED <<arg, val, prog, index, j, ret, dev>>

\* PID_DEVICE_CONTROL_REPORT with the reset bit
DeviceControlReset(c) ==
    /\ pc[c] = "devctl"
    /\ \E r \in WriteResults(3) :
          /\ WriteReport(c, DeviceControlBuf(DC_DEVICE_RESET), 3, r)
          /\ dev' = IF r < 0 THEN dev ELSE DeviceControlled(dev, DC_DEVICE_RESET)
    /\ Advance(c)
    /\ UNCHANGED <<arg, val, prog, index, i, j, ret>>

\* DEVICE_GAIN_REPORT
DeviceGain(c) ==
    /\ pc[c] = "gain"
    /\ \E r \in WriteResults(3) : WriteReport(c, DeviceGainBuf, 3, r)
    /\ Advance(c)
    /\ UNCHANGED <<arg, val, prog, index, i, j, ret, dev>>

\* mutant: the feature send is repeated until it succeeds
CreateNewEffect_Retry(c) ==
    /\ pc[c] = "create"
    /\ buf' = [buf EXCEPT ![c] = CreateNewEffectBuf]
    /\ log' = Logged(c, "send_feature", Sent(CreateNewEffectBuf, 4), <<>>)
    /\ \/ /\ res' = [res EXCEPT ![c] = -1]
          /\ UNCHANGED <<dev, pc>>
       \/ /\ res' = [res EXCEPT ![c] = 4]
          /\ \E r \in LoadOutcomes(dev.alloc) : dev' = Created(dev, r, c)
          /\ Advance(c)
    /\ UNCHANGED <<arg, val, prog, index, i, j, ret>>

\* CREATE_NEW_EFFECT_REPORT, a feature send
CreateNewEffect(c) ==
    /\ pc[c] = "create"
    /\ buf' = [buf EXCEPT ![c] = CreateNewEffectBuf]
    /\ log' = Logged(c, "send_feature", Sent(CreateNewEffectBuf, 4), <<>>)
    /\ \/ /\ res' = [res EXCEPT ![c] = -1]
          /\ UNCHANGED dev
       \/ /\ res' = [res EXCEPT ![c] = 4]
          /\ \E r \in LoadOutcomes(dev.alloc) : dev' = Created(dev, r, c)
    /\ Advance(c)
    /\ UNCHANGED <<arg, val, prog, index, i, j, ret>>

\* PID_BLOCK_LOAD_REPORT, a feature get; the print loop leaves i = res
BlockLoad(c) ==
    /\ pc[c] = "blockload"
    /\ LET b == FeatureRequestBuf(PID_BLOCK_LOAD_REPORT_ID)
           r == BlockLoadResponse(dev.load)
       IN  \/ /\ buf' = [buf EXCEPT ![c] = b]
              /\ res' = [res EXCEPT ![c] = -1]
              /\ log' = Logged(c, "get_feature", Sent(b, 1), <<>>)
              /\ UNCHANGED i
           \/ /\ buf' = [buf EXCEPT ![c] = Received(b, r, FEATURE_GET_LEN)]
              /\ res' = [res EXCEPT ![c] = Len(r)]
              /\ log' = Logged(c, "get_feature", Sent(b, 1), r)
              /\ i' = [i EXCEPT ![c] = Len(r)]
    /\ Advance(c)
    /\ UNCHANGED <<arg, val, prog, index, j, ret, dev>>

\* mutant: the index is used without the test
GivesUp_Never(p, idx) ==
    p = "none" /\ idx = 0

\* whether the program gives up on the index it read
GivesUp(p, idx) ==
    p = "main" /\ idx = 0

\* index = buf[1]; main.c: if (index == 0) return 1;
ReadIndex(c) ==
    /\ pc[c] = "readindex"
    /\ index' = [index EXCEPT ![c] = buf[c][1]]
    /\ IF GivesUp(prog[c], buf[c][1])
       THEN Goto(c, "returned") /\ ret' = [ret EXCEPT ![c] = 1]
       ELSE Advance(c) /\ UNCHANGED ret
    /\ UNCHANGED <<arg, val, prog, buf, res, i, j, dev, log>>

\* the first SET_CONSTANT_FORCE_REPORT
SetConstantForce(c) ==
    /\ pc[c] = "scf0"
    /\ LET m == InitialMagnitude(prog[c])
       IN  \E r \in WriteResults(5) :
              WriteReport(c, SetConstantForceBuf(index[c], m[1], m[2]), 5, r)
    /\ Advance(c)
    /\ UNCHANGED <<arg, val, prog, index, i, j, ret, dev>>

\* SET_ENVELOPE_REPORT
SetEnvelope(c) ==
    /\ pc[c] = "env"
    /\ \E r \in WriteResults(15) : WriteReport(c, SetEnvelopeBuf(index[c]), 15, r)
    /\ Advance(c)
    /\ UNCHANGED <<arg, val, prog, index, i, j, ret, dev>>

\* SET_EFFECT_REPORT
SetEffect(c) ==
    /\ pc[c] = "seteffect"
    /\ \E r \in WriteResults(23) : WriteReport(c, SetEffectBuf(index[c]), 23, r)
    /\ Advance(c)
    /\ UNCHANGED <<arg, val, prog, index, i, j, ret, dev>>

\* EFFECT_OPERATION_REPORT, Op Effect Start
EffectOperation(c) ==
    /\ pc[c] = "start"
    /\ \E r \in WriteResults(4) : WriteReport(c, EffectOperationBuf(index[c]), 4, r)
    /\ Advance(c)
    /\ UNCHANGED <<arg, val, prog, index, i, j, ret, dev>>

\* for (i = 0; i < 10; i++) { memset; buf = SET_CONSTANT_FORCE(index, 1500); ...
\* entered from the statement before the loop (i = 0) or from the end of the
\* loop body (i++); leaves the loop when i reaches 10
OuterLoop(c) ==
    /\ pc[c] \in {"loop", "outer"}
    /\ LET n == IF pc[c] = "loop" THEN 0 ELSE i[c] + 1
       IN  /\ i' = [i EXCEPT ![c] = n]
           /\ IF n < OUTER_ITERATIONS
              THEN /\ buf' = [buf EXCEPT ![c] = SetConstantForceBuf(
                                 index[c], PositiveMagnitude[1], PositiveMagnitude[2])]
                   /\ j' = [j EXCEPT ![c] = 0]
                   /\ Goto(c, "pos")
              ELSE /\ Goto(c, Succ(prog[c], "loop"))
                   /\ UNCHANGED <<buf, j>>
    /\ UNCHANGED <<arg, val, prog, index, res, ret, dev, log>>

\* one pass of an inner loop: res = hid_write(handle, buf, 5); Sleep(10); i++
InnerWrite(c) ==
    /\ pc[c] \in {"pos", "neg", "zerowr"}
    /\ j[c] < INNER_ITERATIONS
    /\ \E r \in WriteResults(5) : res' = [res EXCEPT ![c] = r]
    /\ log' = Logged(c, "write", Sent(buf[c], 5), <<>>)
    /\ j' = [j EXCEPT ![c] = j[c] + 1]
    /\ UNCHANGED <<arg, val, prog, pc, buf, index, i, ret, dev>>

\* end of the first inner loop: memset; buf = SET_CONSTANT_FORCE(index, -1500)
NegativeHalf(c) ==
    /\ pc[c] = "pos"
    /\ j[c] >= INNER_ITERATIONS
    /\ buf' = [buf EXCEPT ![c] = SetConstantForceBuf(
                  index[c], NegativeMagnitude[1], NegativeMagnitude[2])]
    /\ j' = [j EXCEPT ![c] = 0]
    /\ Goto(c, "neg")
    /\ UNCHANGED <<arg, val, prog, index, res, i, ret, dev, log>>

\* mutant: the inner loops count in the outer loop's i
EndOfBody_SharedCounter(c) ==
    /\ pc[c] = "neg"
    /\ j[c] >= INNER_ITERATIONS
    /\ i' = [i EXCEPT ![c] = j[c]]
    /\ Goto(c, "outer")
    /\ UNCHANGED <<arg, val, prog, buf, index, res, j, ret, dev, log>>

\* end of the second inner loop: the outer loop's body is done
EndOfBody(c) ==
    /\ pc[c] = "neg"
    /\ j[c] >= INNER_ITERATIONS
    /\ Goto(c, "outer")
    /\ UNCHANGED <<arg, val, prog, buf, index, res, i, j, ret, dev, log>>

\* part_000: memset; buf = SET_CONSTANT_FORCE(index, 0) before the last loop
ZeroForce(c) ==
    /\ pc[c] = "zero"
    /\ buf' = [buf EXCEPT ![c] = SetConstantForceBuf(
                  index[c], ZeroMagnitude[1], ZeroMagnitude[2])]
    /\ j' = [j EXCEPT ![c] = 0]
    /\ Goto(c, "zerowr")
    /\ UNCHANGED <<arg, val, prog, index, res, i, ret, dev, log>>

\* part_000: end of the last loop
EndOfZero(c) ==
    /\ pc[c] = "zerowr"
    /\ j[c] >= INNER_ITERATIONS
    /\ Goto(c, Succ(prog[c], "zero"))
    /\ UNCHANGED <<arg, val, prog, buf, index, res, i, j, ret, dev, log>>

\* mutant: the closing report is left out
DeviceControlStop_Skipped(c) ==
    /\ pc[c] = "stopall"
    /\ Advance(c)
    /\ UNCHANGED <<arg, val, prog, buf, index, res, i, j, ret, dev, log>>

\* main.c: the closing PID_DEVICE_CONTROL_REPORT, data 0b00000100
DeviceControlStop(c) ==
    /\ pc[c] = "stopall"
    /\ \E r \in WriteResults(3) :
          /\ WriteReport(c, DeviceControlBuf(DC_STOP_ALL_EFFECTS), 3, r)
          /\ dev' = IF r < 0 THEN dev ELSE DeviceControlled(dev, DC_STOP_ALL_EFFECTS)
    /\ Advance(c)
    /\ UNCHANGED <<arg, val, prog, index, i, j, ret>>

\* hid_close(handle)
HidClose(c) ==
    /\ pc[c] = "close"
    /\ log' = Logged(c, "close", <<>>, <<>>)
    /\ Advance(c)
    /\ UNCHANGED <<arg, val, prog, buf, index, res, i, j, ret, dev>>

\* hid_exit(); return 0;
HidExit(c) ==
    /\ pc[c] = "exit"
    /\ log' = Logged(c, "exit", <<>>, <<>>)
    /\ ret' = [ret EXCEPT ![c] = 0]
    /\ Advance(c)
    /\ UNCHANGED <<arg, val, prog, buf, index, res, i, j, dev>>

----------------------------------------------------------------------------
(* One run of either program *)

Programs == {"main", "part"}

\* the state when main is entered by the callers cs, each running a program
\* of ps, on a device with no effect allocated by them
Start(cs, ps) ==
    /\ prog \in [cs -> ps]
    /\ pc = [c \in cs |-> "init"]
    /\ buf = [c \in cs |-> Build(<<>>)]
    /\ index = [c \in cs |-> 0]
    /\ res = [c \in cs |-> 0]
    /\ i = [c \in cs |-> 0]
    /\ j = [c \in cs |-> 0]
    /\ ret = [c \in cs |-> 0]
    /\ dev \in [alloc : {{}}, load : FailedLoads, by : {0}]
    /\ log = <<>>
    /\ arg = 0
    /\ val = 0

Init == Start({1}, Programs)

Next ==
    \E c \in {1} :
        \/ HidInit(c)
        \/ HidOpen(c)
        \/ PidPoolReport(c)
        \/ DeviceControlReset(c)
        \/ DeviceGain(c)
        \/ CreateNewEffect(c)
        \/ BlockLoad(c)
        \/ ReadIndex(c)
        \/ SetConstantForce(c)
        \/ SetEnvelope(c)
        \/ SetEffect(c)
        \/ EffectOperation(c)
        \/ OuterLoop(c)
        \/ InnerWrite(c)
        \/ NegativeHalf(c)
        \/ EndOfBody(c)
        \/ ZeroForce(c)
        \/ EndOfZero(c)
        \/ DeviceControlStop(c)
        \/ HidClose(c)
        \/ HidExit(c)

Spec == Init /\ [][Next]_vars

----------------------------------------------------------------------------
(* Two runs of main.c on one device *)

\* main.c opens the device non-exclusively (hid_darwin_set_open_exclusive(0)),
\* so two runs can hold it at once.  Each run is followed from its entry to
\* its first SET_CONSTANT_FORCE_REPORT, the first use of the index it read;
\* the runs take no lock, so their transport calls interleave freely.
InitTwo == Start({1, 2}, {"main"})

NextTwo ==
    \E c \in {1, 2} :
        \/ HidInit(c)
        \/ HidOpen(c)
        \/ DeviceControlReset(c)
        \/ DeviceGain(c)
        \/ CreateNewEffect(c)
        \/ BlockLoad(c)
        \/ ReadIndex(c)
        \/ SetConstantForce(c)

SpecTwo == InitTwo /\ [][NextTwo]_vars

----------------------------------------------------------------------------
(* Reading the wire trace *)

Entries == 1..Len(log)

\* entry k is an output report with the given report id
IsWrite(k, id) ==
    log[k].op = "write" /\ log[k].data[1] = id

\* entry k is one of the reports addressed to an effect block (handle at byte 1)
EffectReportIds ==
    {SET_CONSTANT_FORCE_REPORT_ID, SET_ENVELOPE_REPORT_ID,
     SET_EFFECT_REPORT_ID, EFFECT_OPERATION_REPORT_ID}

IsEffectReport(k) ==
    log[k].op = "write" /\ log[k].data[1] \in EffectReportIds

HandleOf(k) == log[k].data[2]

IsCreate(k) ==
    log[k].op = "send_feature" /\ log[k].data[1] = CREATE_NEW_EFFECT_REPORT_ID

\* entry k is a feature get of report id
IsGet(k, id) ==
    log[k].op = "get_feature" /\ log[k].data[1] = id

\* entry k is a Block Load get that was answered, with the given status
IsLoadWithStatus(k, st) ==
    IsGet(k, PID_BLOCK_LOAD_REPORT_ID) /\ log[k].resp # <<>> /\ log[k].resp[3] \in st

IsStart(k) ==
    IsWrite(k, EFFECT_OPERATION_REPORT_ID) /\ log[k].data[3] = OP_EFFECT_START

IsStop(k) ==
    IsWrite(k, EFFECT_OPERATION_REPORT_ID) /\ log[k].data[3] = OP_EFFECT_STOP

IsDeviceControl(k, flags) ==
    IsWrite(k, PID_DEVICE_CONTROL_REPORT_ID) /\ log[k].data[2] = flags

IsGain(k) ==
    IsWrite(k, DEVICE_GAIN_REPORT_ID) /\ log[k].data[2] = DEVICE_GAIN_FULL

IsForce(k, m) ==
    IsWrite(k, SET_CONSTANT_FORCE_REPORT_ID) /\ <<log[k].data[3], log[k].data[4]>> = m

IsClose(k) == log[k].op = "close"

----------------------------------------------------------------------------
(* C1: a handle is used only after a Block Load response with status         *)
(* Success: once a Block Load response carried status Full or Error, no      *)
(* SetConstantForce, SetEnvelope, SetEffect or EffectOperation report is     *)
(* sent for the index that response carried.                                 *)
C1_FailedLoadNeverUsed ==
    \A k \in Entries :
        IsLoadWithStatus(k, {BLOCK_LOAD_FULL, BLOCK_LOAD_ERROR}) =>
            \A m \in (k + 1)..Len(log) :
                ~(IsEffectReport(m) /\ HandleOf(m) = log[k].resp[2])

(* C2: the handle byte of every transmitted effect report lies in [1,10];   *)
(* the sentinel 0 is never transmitted as a handle.                          *)
C2_HandleInRange ==
    \A k \in Entries :
        IsEffectReport(k) => HandleOf(k) \in BLOCK_INDEX_MIN..BLOCK_INDEX_MAX

(* C3: EffectOperation(Start) for a handle is sent only after the SetEffect *)
(* report for that handle, and never for a handle that was not allocated     *)
(* (no Block Load response with status Success carried it).                  *)
C3_StartAfterSetEffectOfAllocated ==
    \A k \in Entries :
        IsStart(k) =>
            /\ \E m \in 1..(k - 1) :
                  IsWrite(m, SET_EFFECT_REPORT_ID) /\ HandleOf(m) = HandleOf(k)
            /\ \E m \in 1..(k - 1) :
                  /\ IsLoadWithStatus(m, {BLOCK_LOAD_SUCCESS})
                  /\ log[m].resp[2] = HandleOf(k)

(* C4: the SetConstantForce report and the SetEnvelope report for a handle  *)
(* are written before the SetEffect report for that handle, and nothing but *)
(* the SetEnvelope report is written between SetConstantForce and SetEffect: *)
(* the two calls before a SetEffect write are SetConstantForce, SetEnvelope. *)
C4_TypeSpecificBeforeSetEffect ==
    \A k \in Entries :
        IsWrite(k, SET_EFFECT_REPORT_ID) =>
            /\ k >= 3
            /\ IsWrite(k - 1, SET_ENVELOPE_REPORT_ID)
            /\ HandleOf(k - 1) = HandleOf(k)
            /\ log[k - 1].n = 1
            /\ IsWrite(k - 2, SET_CONSTANT_FORCE_REPORT_ID)
            /\ HandleOf(k - 2) = HandleOf(k)

C4_Witness ==
    /\ pc[1] = "start"
    /\ IsWrite(Len(log), SET_EFFECT_REPORT_ID)
    /\ HandleOf(Len(log)) \in BLOCK_INDEX_MIN..BLOCK_INDEX_MAX

(* C5: the transport call that follows the CreateNewEffect feature send     *)
(* (report 0x11, effect type 1) is the BlockLoad feature get, whether or not *)
(* the send returned an error: the send is made once with 4 bytes, while it  *)
(* is the last call the program is at the Block Load get, and any call after *)
(* it is that get.                                                           *)
C5_BlockLoadFollowsCreate ==
    \A k \in Entries :
        IsCreate(k) =>
            /\ log[k].data = <<CREATE_NEW_EFFECT_REPORT_ID, ET_CONSTANT_FORCE, 0, 0>>
            /\ log[k].n = 1
            /\ k = Len(log) => pc[1] = "blockload"
            /\ k < Len(log) => IsGet(k + 1, PID_BLOCK_LOAD_REPORT_ID)

\* the get was made, and answered, although the CreateNewEffect send had
\* returned an error: no creation ever reached the device (dev.by = 0)
C5_Witness ==
    /\ pc[1] = "readindex"
    /\ Len(log) >= 2
    /\ IsCreate(Len(log) - 1)
    /\ IsGet(Len(log), PID_BLOCK_LOAD_REPORT_ID)
    /\ res[1] >= 0
    /\ dev.by = 0

(* C6: with two callers on the same device, the index a caller reads from   *)
(* BlockLoad is always the block allocated by its own CreateNewEffect: a     *)
(* Block Load get that answers Success answers the reading caller's own      *)
(* creation, because no other caller's CreateNewEffect came in between.      *)
C6_OwnBlockLoaded ==
    [][\A c \in {1, 2} :
          (/\ pc[c] = "blockload"
           /\ pc'[c] = "readindex"
           /\ res'[c] >= 0
           /\ dev.load[2] = BLOCK_LOAD_SUCCESS) => dev.by = c]_vars

(* C7 as stated: initialization issues DeviceControl(Reset, 0x08), then     *)
(* DeviceGain(0xFF), then the PIDPool (0x13) feature query, in that order,   *)
(* all before CreateNewEffect is sent.                                       *)
C7_ResetGainPoolThenCreate ==
    \A k \in Entries :
        IsCreate(k) =>
            \E a, b, d \in 1..(k - 1) :
                /\ a < b /\ b < d
                /\ IsDeviceControl(a, DC_DEVICE_RESET)
                /\ IsGain(b)
                /\ IsGet(d, PID_POOL_REPORT_ID)

(* C7 amended: DeviceControl(Reset, 0x08) and then DeviceGain(0xFF) are the *)
(* two reports written immediately before CreateNewEffect; the PIDPool       *)
(* (0x13) feature query is made by part_000 only, as its first transport     *)
(* call, before DeviceControl(Reset); main.c never queries PIDPool.          *)
C7_InitializationOrder ==
    /\ \A k \in Entries :
          IsCreate(k) =>
              /\ k >= 3
              /\ IsDeviceControl(k - 2, DC_DEVICE_RESET)
              /\ IsGain(k - 1)
              /\ IF prog[1] = "part"
                 THEN k = 4 /\ IsGet(1, PID_POOL_REPORT_ID)
                 ELSE k = 3
    /\ \A k \in Entries :
          IsGet(k, PID_POOL_REPORT_ID) => prog[1] = "part" /\ k = 1

C7_Witness ==
    /\ prog[1] = "part"
    /\ pc[1] = "blockload"
    /\ IsCreate(Len(log))

(* C8 as stated: before the device is closed, an EffectOperation(Stop,      *)
(* selector 3) report is sent for every effect that was started, followed    *)
(* by a DeviceControl(StopAllEffects, 0x04) report.                          *)
C8_StopThenStopAllBeforeClose ==
    \A k \in Entries :
        IsClose(k) =>
            \A m \in 1..(k - 1) :
                IsStart(m) =>
                    \E t, d \in (m + 1)..(k - 1) :
                        /\ t < d
                        /\ IsStop(t) /\ HandleOf(t) = HandleOf(m)
                        /\ IsDeviceControl(d, DC_STOP_ALL_EFFECTS)

(* C8 amended: neither program ever sends EffectOperation(Stop).  In main.c *)
(* the last report before the device is closed is one                        *)
(* DeviceControl(StopAllEffects, 0x04), written after the Start report and   *)
(* after every SetConstantForce report; part_000 sends no                    *)
(* DeviceControl(StopAllEffects) at all.                                     *)
C8_StopAllBeforeClose ==
    /\ \A k \in Entries : ~IsStop(k)
    /\ \A k \in Entries :
          IsDeviceControl(k, DC_STOP_ALL_EFFECTS) => prog[1] = "main"
    /\ \A k \in Entries :
          (IsClose(k) /\ prog[1] = "main") =>
              /\ k >= 2
              /\ IsDeviceControl(k - 1, DC_STOP_ALL_EFFECTS)
              /\ log[k - 1].n = 1
              /\ \E m \in 1..(k - 2) : IsStart(m)
              /\ \A m \in k..Len(log) :
                    ~IsWrite(m, SET_CONSTANT_FORCE_REPORT_ID)

C8_Witness ==
    /\ prog[1] = "main"
    /\ pc[1] = "exit"
    /\ IsClose(Len(log))

\* the last SetConstantForce entry before entry k (0 when there is none)
LastForceBefore(k) ==
    LET fs == {m \in 1..(k - 1) : IsWrite(m, SET_CONSTANT_FORCE_REPORT_ID)}
    IN  IF fs = {} THEN 0 ELSE CHOOSE m \in fs : \A o \in fs : o <= m

(* C9 as stated: in every run that started an effect, the last              *)
(* SetConstantForce report written before hid_close carries magnitude 0.     *)
C9_LastForceIsZero ==
    \A k \in Entries :
        (IsClose(k) /\ \E m \in 1..(k - 1) : IsStart(m)) =>
            /\ LastForceBefore(k) # 0
            /\ IsForce(LastForceBefore(k), <<0, 0>>)

(* C9 amended: in part_000 the last SetConstantForce reports written before *)
(* hid_close are the 100 zero-magnitude reports of its closing loop; in      *)
(* main.c the last SetConstantForce report before hid_close carries          *)
(* magnitude -1500 (0x24, 0xfa) and only the DeviceControl(StopAllEffects)   *)
(* report follows it.                                                        *)
C9_LastForceBeforeClose ==
    \A k \in Entries :
        IsClose(k) =>
            LET f == LastForceBefore(k)
            IN  /\ f # 0
                /\ log[f].n = INNER_ITERATIONS
                /\ HandleOf(f) = index[1]
                /\ IF prog[1] = "part"
                   THEN IsForce(f, <<0, 0>>) /\ f = k - 1
                   ELSE /\ IsForce(f, <<36, 250>>)
                        /\ f = k - 2
                        /\ IsDeviceControl(k - 1, DC_STOP_ALL_EFFECTS)

C9_Witness ==
    /\ prog[1] = "part"
    /\ pc[1] = "exit"
    /\ IsClose(Len(log))
    /\ IsForce(Len(log) - 1, <<0, 0>>)

\* entry k destroys effect block h: a Block Free report for h, or a Device
\* Control report with the Device Reset bit
Destroys(k, h) ==
    \/ IsWrite(k, BLOCK_FREE_REPORT_ID) /\ HandleOf(k) = h
    \/ /\ IsWrite(k, PID_DEVICE_CONTROL_REPORT_ID)
       /\ (log[k].data[2] \div DC_DEVICE_RESET) % 2 = 1

(* C10: after a successful allocation (a Block Load response with status    *)
(* Success), a BlockFree report for that handle or a DeviceControl(Reset)    *)
(* is sent before the device is closed.                                      *)
C10_AllocatedEffectDestroyedBeforeClose ==
    \A k \in Entries :
        IsClose(k) =>
            \A m \in 1..(k - 1) :
                IsLoadWithStatus(m, {BLOCK_LOAD_SUCCESS}) =>
                    \E d \in (m + 1)..(k - 1) : Destroys(d, log[m].resp[2])

(* C11: a transport error stops the lifecycle from advancing: when the      *)
(* CreateNewEffect send returned an error (no creation reached the device)   *)
(* no SetConstantForce, SetEnvelope, SetEffect or EffectOperation report is  *)
(* written, and the program is never about to write EffectOperation(Start)   *)
(* with the SetEffect write having just returned an error.                   *)
C11_ErrorStopsLifecycle ==
    /\ dev.by = 0 => \A k \in Entries : ~IsEffectReport(k)
    /\ ~(pc[1] = "start" /\ res[1] < 0)

(* C12: allocation is never retried: in every run the CreateNewEffect       *)
(* feature report is sent at most once and the BlockLoad feature report is   *)
(* read at most once, whatever the transport calls return.                   *)
C12_AllocationAtMostOnce ==
    /\ Cardinality({k \in Entries : IsCreate(k)}) <= 1
    /\ Cardinality({k \in Entries : IsGet(k, PID_BLOCK_LOAD_REPORT_ID)}) <= 1
    /\ \A k \in Entries :
          (IsCreate(k) \/ IsGet(k, PID_BLOCK_LOAD_REPORT_ID)) => log[k].n = 1

\* both the send and the get returned an error and the program has moved on
C12_Witness ==
    /\ pc[1] \in {"scf0", "returned"}
    /\ dev.by = 0
    /\ \E k \in Entries : IsCreate(k)
    /\ \E k \in Entries : IsGet(k, PID_BLOCK_LOAD_REPORT_ID) /\ log[k].resp = <<>>

----------------------------------------------------------------------------
(* Fields of the SET_EFFECT_REPORT and the ranges the report descriptor     *)
(* declares for them                                                        *)

\* a 16-bit field sent low byte first, read as the unsigned value (the
\* descriptor's logical minimum of these fields is 0)
LE16(lo, hi) == lo + 256 * hi

\* the 16-bit field of entry k whose low byte is buf[off]
Field16(k, off) == LE16(log[k].data[off + 1], log[k].data[off + 2])

\* the 8-bit field of entry k at buf[off]
Field8(k, off) == log[k].data[off + 1]

IsSetEffect(k) == IsWrite(k, SET_EFFECT_REPORT_ID)

\* byte offsets in the SET_EFFECT_REPORT
OFF_DURATION == 3
OFF_TRIGGER_REPEAT == 5
OFF_SAMPLE_PERIOD == 7
OFF_START_DELAY == 9
OFF_GAIN == 11
OFF_TRIGGER_BUTTON == 12
OFF_FLAGS == 13
OFF_DIRECTION_X == 14
OFF_DIRECTION_Y == 16

\* Logical Maximum of Duration, Trigger Repeat Interval, Sample Period,
\* Start Delay (0x26, 0xFF, 0x7F)
TIME_LOGICAL_MAX == 32767
\* Logical Maximum of Gain (0x26, 0xFF, 0x00)
GAIN_LOGICAL_MAX == 255
\* Logical Minimum and Maximum of Trigger Button
TRIGGER_BUTTON_MIN == 1
TRIGGER_BUTTON_MAX == 8

(* C13: no out-of-range field is transmitted: in every SetEffect report     *)
(* written, duration, triggerRepeatInterval, samplePeriod and startDelay     *)
(* are in [0,32767], gain is in [0,255], triggerButton is in [1,8] and      *)
(* directionX and directionY are in [0,35999].                              *)
C13_SetEffectFieldsInRange ==
    \A k \in Entries : IsSetEffect(k) =>
       /\ \A off \in {OFF_DURATION, OFF_TRIGGER_REPEAT, OFF_SAMPLE_PERIOD,
                      OFF_START_DELAY} : Field16(k, off) \in 0..TIME_LOGICAL_MAX
       /\ Field8(k, OFF_GAIN) \in 0..GAIN_LOGICAL_MAX
       /\ Field8(k, OFF_TRIGGER_BUTTON) \in TRIGGER_BUTTON_MIN..TRIGGER_BUTTON_MAX
       /\ \A off \in {OFF_DIRECTION_X, OFF_DIRECTION_Y} : Field16(k, off) \in 0..35999

----------------------------------------------------------------------------
(* The magnitude field of the SET_CONSTANT_FORCE_REPORT *)

\* Logical Minimum and Maximum of Magnitude (0x16, 0x00, 0x80 and
\* 0x26, 0xFF, 0x7F), a 16-bit field
MAGNITUDE_LOGICAL_MIN == -32768
MAGNITUDE_LOGICAL_MAX == 32767

\* the value a device reads from a 16-bit field whose logical minimum is
\* negative: two's complement, low byte first
I16(lo, hi) ==
    IF LE16(lo, hi) > MAGNITUDE_LOGICAL_MAX
    THEN LE16(lo, hi) - 65536
    ELSE LE16(lo, hi)

\* the two bytes of magnitude m as i16, little-endian
MagnitudeBytes(m) ==
    <<(m % 65536) % 256, (m % 65536) \div 256>>

\* the magnitude the source comments give for the bytes of each half
CommentedMagnitude(m) ==
    IF m = PositiveMagnitude THEN 1500 ELSE -1500

\* a magnitude is about to be put into a SET_CONSTANT_FORCE_REPORT
InitCodec ==
    /\ prog = [c \in {1} |-> "main"]
    /\ pc = [c \in {1} |-> "encode"]
    /\ buf = [c \in {1} |-> Build(<<>>)]
    /\ index = [c \in {1} |-> BLOCK_INDEX_MIN]
    /\ res = [c \in {1} |-> 0]
    /\ i = [c \in {1} |-> 0]
    /\ j = [c \in {1} |-> 0]
    /\ ret = [c \in {1} |-> 0]
    /\ dev = [alloc |-> {BLOCK_INDEX_MIN},
              load |-> <<BLOCK_INDEX_MIN, BLOCK_LOAD_SUCCESS>>, by |-> 1]
    /\ log = <<>>
    /\ arg \in MAGNITUDE_LOGICAL_MIN..MAGNITUDE_LOGICAL_MAX
    /\ val = 0

\* the report for magnitude arg
EncodeMagnitude(c) ==
    /\ pc[c] = "encode"
    /\ buf' = [buf EXCEPT ![c] = SetConstantForceBuf(
                  index[c], MagnitudeBytes(arg)[1], MagnitudeBytes(arg)[2])]
    /\ Goto(c, "decode")
    /\ UNCHANGED <<arg, val, prog, index, res, i, j, ret, dev, log>>

\* the report of one half of the force shaping loop, as the programs build it
ProgramMagnitude(c) ==
    /\ pc[c] = "encode"
    /\ \E m \in {PositiveMagnitude, NegativeMagnitude} :
          /\ buf' = [buf EXCEPT ![c] = SetConstantForceBuf(index[c], m[1], m[2])]
          /\ arg' = CommentedMagnitude(m)
    /\ Goto(c, "decode")
    /\ UNCHANGED <<val, prog, index, res, i, j, ret, dev, log>>

\* the device reads the magnitude field, buf[2] and buf[3]
DecodeMagnitude(c) ==
    /\ pc[c] = "decode"
    /\ val' = I16(buf[c][2], buf[c][3])
    /\ Goto(c, "decoded")
    /\ UNCHANGED <<arg, prog, buf, index, res, i, j, ret, dev, log>>

NextCodec ==
    \E c \in {1} :
        \/ EncodeMagnitude(c)
        \/ ProgramMagnitude(c)
        \/ DecodeMagnitude(c)

SpecCodec == InitCodec /\ [][NextCodec]_vars

(* C14: SetConstantForce carries the magnitude as 16-bit two's complement,  *)
(* low byte at byte 2 and high byte at byte 3, and the encoding round-trips: *)
(* decoding the bytes produced for m gives back m for every m of the field's *)
(* range (which contains [-10000,10000]); the byte pairs the programs write, *)
(* (0xdc,0x05) and (0x24,0xfa), decode to the 1500 and -1500 of the comments.*)
C14_MagnitudeRoundTrip ==
    /\ pc[1] \in {"decode", "decoded"} =>
          /\ buf[1][0] = SET_CONSTANT_FORCE_REPORT_ID
          /\ buf[1][2] \in 0..255 /\ buf[1][3] \in 0..255
          /\ \A k \in 4..(BUF_SIZE - 1) : buf[1][k] = 0
    /\ pc[1] = "decoded" => val = arg

\* a negative magnitude of the claim's range went through both conversions,
\* and so did the bytes 0x24, 0xfa of the programs
C14_Witness ==
    /\ pc[1] = "decoded"
    /\ val = -1500
    /\ <<buf[1][2], buf[1][3]>> = NegativeMagnitude

----------------------------------------------------------------------------
(* The force shaping loop *)

\* the positions of the force shaping loop
LoopLabels == {"loop", "outer", "pos", "neg"}

\* entry k is a SET_CONSTANT_FORCE_REPORT for handle h
IsForceFor(k, h) ==
    IsWrite(k, SET_CONSTANT_FORCE_REPORT_ID) /\ HandleOf(k) = h

(* C15: live magnitude updates resend only SetConstantForce: from the       *)
(* EffectOperation(Start) report until the force shaping loop ends, every    *)
(* report written is a SetConstantForce report with the handle of the Start  *)
(* report; whatever else follows Start is written after the last of them.    *)
C15_OnlyForceWhileShaping ==
    \A k \in Entries : IsStart(k) =>
        \A m \in Entries : (m > k /\ ~IsForceFor(m, HandleOf(k))) =>
            /\ pc[1] \notin LoopLabels
            /\ ~IsEffectReport(m) /\ ~IsCreate(m)
            /\ \A n \in Entries : n > m => ~IsWrite(n, SET_CONSTANT_FORCE_REPORT_ID)

\* the loop is in its second iteration or later, after reports of both signs
C15_Witness ==
    /\ pc[1] = "neg"
    /\ i[1] >= 1
    /\ \E k \in Entries : IsStart(k) /\ Len(log) >= k + 3

----------------------------------------------------------------------------
(* read_once(handle, buf, len) of part_000 *)

\* "10 tries by 500 ms"
READ_TRIES == 10
READ_SLEEP_MS == 500

\* sizeof(buf) where buf is an unsigned char*: the size of a pointer, which
\* depends on the build (32-bit or 64-bit)
PointerSizes == {4, 8}

\* what hid_read(handle, buf, size) can return: an error, no data yet, or
\* the number of bytes of the input report it stored
ReadResults(size) == {-1, 0} \cup (1..size)

\* the bytes an input report is filled with
ReportBytes == {0, 255}

\* a call of a library function other than a transport call, e.g. printf
Called(c, what) == Logged(c, what, <<>>, <<>>)

\* read_once is entered: res = 0, i = 0; arg is len, val is sizeof(buf)
InitRead ==
    /\ prog = [c \in {1} |-> "part"]
    /\ pc = [c \in {1} |-> "rd_read"]
    /\ buf = [c \in {1} |-> Build(<<>>)]
    /\ index = [c \in {1} |-> 0]
    /\ res = [c \in {1} |-> 0]
    /\ i = [c \in {1} |-> 0]
    /\ j = [c \in {1} |-> 0]
    /\ ret = [c \in {1} |-> 0]
    /\ dev = [alloc |-> {}, load |-> <<0, BLOCK_LOAD_ERROR>>, by |-> 0]
    /\ log = <<>>
    /\ arg \in {FEATURE_GET_LEN, BUF_SIZE}
    /\ val \in PointerSizes

\* mutant: the attempt is not counted
CountAttempt_Forgotten(c) ==
    /\ pc[c] = "rd_count"
    /\ Goto(c, "rd_sleep")
    /\ UNCHANGED <<arg, val, prog, buf, index, res, i, j, ret, dev, log>>

\* res = hid_read(handle, buf, sizeof(buf))
HidRead(c) ==
    /\ pc[c] = "rd_read"
    /\ \E r \in ReadResults(val), d \in ReportBytes :
          /\ res' = [res EXCEPT ![c] = r]
          /\ buf' = [buf EXCEPT ![c] =
                        IF r > 0 THEN Received(buf[c], [k \in 1..r |-> d], val)
                        ELSE buf[c]]
    /\ log' = Logged(c, "hid_read", <<val>>, <<>>)
    /\ Goto(c, "rd_check")
    /\ UNCHANGED <<arg, val, prog, index, i, j, ret, dev>>

\* mutant: the error is printed but the loop is not left
CheckRead_NoBreak(c) ==
    /\ pc[c] = "rd_check"
    /\ IF res[c] = 0
       THEN log' = Called(c, "printf waiting...") /\ Goto(c, "rd_count")
       ELSE IF res[c] < 0
       THEN log' = Called(c, "printf Unable to read()") /\ Goto(c, "rd_count")
       ELSE log' = log /\ Goto(c, "rd_count")
    /\ UNCHANGED <<arg, val, prog, buf, index, res, i, j, ret, dev>>

\* if (res == 0) printf("waiting..."); if (res < 0) { printf(...); break; }
CheckRead(c) ==
    /\ pc[c] = "rd_check"
    /\ IF res[c] = 0
       THEN log' = Called(c, "printf waiting...") /\ Goto(c, "rd_count")
       ELSE IF res[c] < 0
       THEN log' = Called(c, "printf Unable to read()") /\ Goto(c, "rd_data")
       ELSE log' = log /\ Goto(c, "rd_count")
    /\ UNCHANGED <<arg, val, prog, buf, index, res, i, j, ret, dev>>

\* i++; if (i >= 10) { printf("read() timeout"); break; }
CountAttempt(c) ==
    /\ pc[c] = "rd_count"
    /\ i' = [i EXCEPT ![c] = i[c] + 1]
    /\ IF i[c] + 1 >= READ_TRIES
       THEN log' = Called(c, "printf read() timeout") /\ Goto(c, "rd_data")
       ELSE log' = log /\ Goto(c, "rd_sleep")
    /\ UNCHANGED <<arg, val, prog, buf, index, res, j, ret, dev>>

\* Sleep(500), then the test of while (res == 0)
SleepThenTest(c) ==
    /\ pc[c] = "rd_sleep"
    /\ log' = Logged(c, "sleep", <<READ_SLEEP_MS>>, <<>>)
    /\ Goto(c, IF res[c] = 0 THEN "rd_read" ELSE "rd_data")
    /\ UNCHANGED <<arg, val, prog, buf, index, res, i, j, ret, dev>>

\* if (res > 0) the res bytes read are printed; read_once returns
PrintData(c) ==
    /\ pc[c] = "rd_data"
    /\ log' = IF res[c] > 0
              THEN Logged(c, "printf Data read", Sent(buf[c], res[c]), <<>>)
              ELSE log
    /\ Goto(c, "rd_return")
    /\ UNCHANGED <<arg, val, prog, buf, index, res, i, j, ret, dev>>

NextRead ==
    \E c \in {1} :
        \/ HidRead(c)
        \/ CheckRead(c)
        \/ CountAttempt(c)
        \/ SleepThenTest(c)
        \/ PrintData(c)

SpecRead == InitRead /\ [][NextRead]_vars

\* the hid_read calls made so far
Reads == {k \in Entries : log[k].op = "hid_read"}

(* C16: a read that waits for a device response is bounded: whatever        *)
(* hid_read returns, read_once makes at most 10 read attempts and, until it  *)
(* has returned, always has a next step; when all 10 attempts returned no    *)
(* data it has printed "read() timeout" and returns.                         *)
C16_ReadOnceBounded ==
    /\ Cardinality(Reads) <= READ_TRIES
    /\ \A k \in Reads : log[k].n = 1
    /\ i[1] <= READ_TRIES
    /\ pc[1] # "rd_return" => ENABLED NextRead
    /\ (Cardinality(Reads) = READ_TRIES /\ res[1] = 0 /\ pc[1] \in {"rd_data", "rd_return"})
          => \E k \in Entries : log[k].op = "printf read() timeout"

\* ten attempts returned no data and read_once has returned
C16_Witness ==
    /\ pc[1] = "rd_return"
    /\ res[1] = 0
    /\ Cardinality(Reads) = READ_TRIES
    /\ log[Len(log)].op = "printf read() timeout"

----------------------------------------------------------------------------
(* The layout of the reports *)

\* bit n of the byte v
Bit(v, n) == (v \div (2 ^ n)) % 2

\* the statements that write a report addressed to an effect block
EffectLabels == {"scf0", "env", "seteffect", "start", "pos", "neg", "zerowr"}

(* C17: every report follows the fixed wire layout: byte 0 of the report    *)
(* each statement sends is the id of that report (0x0C DeviceControl, 0x0D   *)
(* DeviceGain, 0x11 CreateNewEffect, 0x12 BlockLoad, 0x13 PIDPool, 0x05      *)
(* SetConstantForce, 0x02 SetEnvelope, 0x01 SetEffect, 0x0A EffectOperation),*)
(* byte 1 of every effect-addressed report is the handle, and the SetEffect  *)
(* flags byte at offset 13 has axis-enable-X at bit 0, axis-enable-Y at bit  *)
(* 1, direction-enable at bit 2 (the one the programs set), bits 3-7 zero.   *)
C17_WireLayout ==
    [][LET e == log'[Len(log')]
           id == CASE pc[1] \in {"devctl", "stopall"} -> 12
                   [] pc[1] = "gain" -> 13
                   [] pc[1] = "create" -> 17
                   [] pc[1] = "blockload" -> 18
                   [] pc[1] = "pool" -> 19
                   [] pc[1] \in {"scf0", "pos", "neg", "zerowr"} -> 5
                   [] pc[1] = "env" -> 2
                   [] pc[1] = "seteffect" -> 1
                   [] pc[1] = "start" -> 10
                   [] OTHER -> 0
       IN  (log' # log /\ e.op \in {"write", "send_feature", "get_feature"}) =>
              /\ e.data[1] = id
              /\ pc[1] \in EffectLabels => e.data[2] = index[1]
              /\ pc[1] = "seteffect" =>
                    /\ Len(e.data) > OFF_FLAGS + 1
                    /\ Bit(e.data[OFF_FLAGS + 1], 0) = 0
                    /\ Bit(e.data[OFF_FLAGS + 1], 1) = 0
                    /\ Bit(e.data[OFF_FLAGS + 1], 2) = 1
                    /\ \A n \in 3..7 : Bit(e.data[OFF_FLAGS + 1], n) = 0]_vars

\* a SetEffect report for an allocated handle is in the trace, after reports
\* of every other kind the setup sends
C17_Witness ==
    /\ index[1] \in BLOCK_INDEX_MIN..BLOCK_INDEX_MAX
    /\ \E k \in Entries : IsSetEffect(k) /\ HandleOf(k) = index[1]
                             /\ Field8(k, OFF_FLAGS) = 4
    /\ \E k \in Entries : IsStart(k) /\ HandleOf(k) = index[1]
    /\ \E k \in Entries : IsGet(k, PID_POOL_REPORT_ID)

----------------------------------------------------------------------------
(* The Device Gain field *)

\* Logical and Physical Minimum and Maximum of Device Gain
DEVICE_GAIN_LOGICAL_MIN == 0
DEVICE_GAIN_LOGICAL_MAX == 255
DEVICE_GAIN_PHYSICAL_MIN == 0
DEVICE_GAIN_PHYSICAL_MAX == 10000

\* the physical value of the logical value v of a field: the linear map of
\* the logical range onto the physical range.  The result is the pair of
\* the quotient and the remainder of the division by the logical span.
Physical(v, lmin, lmax, pmin, pmax) ==
    <<pmin + ((v - lmin) * (pmax - pmin)) \div (lmax - lmin),
      ((v - lmin) * (pmax - pmin)) % (lmax - lmin)>>

\* the physical gain, in units of 0.01 %, of the Device Gain byte v
DeviceGainPhysical(v) ==
    Physical(v, DEVICE_GAIN_LOGICAL_MIN, DEVICE_GAIN_LOGICAL_MAX,
                DEVICE_GAIN_PHYSICAL_MIN, DEVICE_GAIN_PHYSICAL_MAX)

IsDeviceGain(k) == IsWrite(k, DEVICE_GAIN_REPORT_ID)

(* C18: the DeviceGain byte both programs send maps to 100 % physical gain: *)
(* every DeviceGain report written carries 0xFF, whose physical value under  *)
(* the scaling of [0,255] onto [0,10000] is exactly 10000, and a DeviceGain  *)
(* report is written before any EffectOperation(Start).                      *)
C18_FullGainBeforeStart ==
    /\ \A k \in Entries : IsDeviceGain(k) =>
          /\ log[k].data[2] = 255
          /\ DeviceGainPhysical(log[k].data[2]) = <<10000, 0>>
    /\ \A k \in Entries : IsStart(k) => \E g \in 1..(k - 1) : IsDeviceGain(g)

\* the gain report and then the Start report have been written
C18_Witness ==
    \E k \in Entries : IsStart(k) /\ \E g \in 1..(k - 1) : IsGain(g)

----------------------------------------------------------------------------
(* The direction fields of the SET_EFFECT_REPORT *)

\* the direction fields count hundredths of a degree ("centi-degrees")
DIRECTION_UNITS_PER_DEGREE == 100

\* the direction the comment on buf[14], buf[15] gives: "900.0 degrees"
COMMENTED_DIRECTION_DEGREES == 900

\* the largest value of a 16-bit field
U16_MAX == 65535

\* the direction value v in degrees and hundredths of a degree
DirectionDegrees(v) ==
    <<v \div DIRECTION_UNITS_PER_DEGREE, v % DIRECTION_UNITS_PER_DEGREE>>

(* C19: the direction X value written in the SetEffect report, bytes 14-15  *)
(* = 0x28, 0x23 little-endian, is the raw value 9000, which at 0.01 degree   *)
(* per unit is 90.00 degrees; the 900.0 degrees of the source comment would  *)
(* be raw 90000, which does not fit in 16 bits.                              *)
C19_DirectionIsNinetyDegrees ==
    /\ \A k \in Entries : IsSetEffect(k) =>
          /\ <<Field8(k, OFF_DIRECTION_X), Field8(k, OFF_DIRECTION_X + 1)>> = <<40, 35>>
          /\ Field16(k, OFF_DIRECTION_X) = 9000
          /\ DirectionDegrees(Field16(k, OFF_DIRECTION_X)) = <<90, 0>>
          /\ DirectionDegrees(Field16(k, OFF_DIRECTION_X))[1] # COMMENTED_DIRECTION_DEGREES
    /\ COMMENTED_DIRECTION_DEGREES * DIRECTION_UNITS_PER_DEGREE = 90000
    /\ COMMENTED_DIRECTION_DEGREES * DIRECTION_UNITS_PER_DEGREE > U16_MAX

\* the SetEffect report has been written by part_000, whose comment names
\* the unit
C19_Witness ==
    /\ prog[1] = "part"
    /\ \E k \in Entries : IsSetEffect(k) /\ Field16(k, OFF_DIRECTION_X) = 9000

\* the force shaping loop has been left
AfterLoop == {"stopall", "zero", "zerowr", "close", "exit", "returned"}

\* the magnitude of the m-th run of equal reports of the force shaping loop
HalfMagnitude(m) ==
    IF m % 2 = 1 THEN PositiveMagnitude ELSE NegativeMagnitude

(* C20: the force shaping loop is bounded and exact: the outer counter      *)
(* never passes 10 and the inner one never passes 100; once the loop is      *)
(* left, the reports written after Start begin with 10 times (100 reports of *)
(* magnitude 1500, then 100 of magnitude -1500), 2000 in all, followed in    *)
(* part_000 by 100 zero-magnitude reports and by no other force report; the  *)
(* program always has a next step until it returns, and hid_close is then    *)
(* called whatever the writes returned.                                      *)
C20_LoopBoundedAndExact ==
    /\ i[1] \in 0..OUTER_ITERATIONS
    /\ j[1] \in 0..INNER_ITERATIONS
    /\ 2 * OUTER_ITERATIONS * INNER_ITERATIONS = 2000
    /\ pc[1] # "returned" => ENABLED Next
    /\ \A k \in Entries : (IsStart(k) /\ pc[1] \in AfterLoop) =>
          /\ Len(log) >= k + 2 * OUTER_ITERATIONS
          /\ \A m \in 1..(2 * OUTER_ITERATIONS) :
                /\ IsForce(k + m, HalfMagnitude(m))
                /\ log[k + m].n = INNER_ITERATIONS
          /\ \A m \in Entries :
                (m > k + 2 * OUTER_ITERATIONS
                    /\ IsWrite(m, SET_CONSTANT_FORCE_REPORT_ID)) =>
                   /\ prog[1] = "part"
                   /\ m = k + 2 * OUTER_ITERATIONS + 1
                   /\ IsForce(m, ZeroMagnitude)
                   /\ log[m].n <= INNER_ITERATIONS
          /\ (prog[1] = "part" /\ pc[1] \in {"close", "exit", "returned"}) =>
                /\ IsForce(k + 2 * OUTER_ITERATIONS + 1, ZeroMagnitude)
                /\ log[k + 2 * OUTER_ITERATIONS + 1].n = INNER_ITERATIONS
          /\ pc[1] \in {"exit", "returned"} => \E m \in Entries : m > k /\ IsClose(m)

\* part_000 has returned after the loops, its last write having failed
C20_Witness ==
    /\ prog[1] = "part"
    /\ pc[1] = "returned"
    /\ res[1] < 0
    /\ \E k \in Entries : IsStart(k) /\ IsClose(k + 2 * OUTER_ITERATIONS + 2)

----------------------------------------------------------------------------
(* The handle within one run *)

(* C21: within one run the handle is fixed once read: the handle byte of    *)
(* every SetConstantForce, SetEnvelope, SetEffect and EffectOperation report *)
(* equals byte 1 of the Block Load response of that run, of which there is   *)
(* one.                                                                      *)
C21_HandleIsBlockLoadByte ==
    \A k \in Entries : IsEffectReport(k) =>
        \E g \in 1..(k - 1) :
            /\ IsGet(g, PID_BLOCK_LOAD_REPORT_ID)
            /\ log[g].resp # <<>>
            /\ HandleOf(k) = log[g].resp[2]
            /\ \A h \in Entries : IsGet(h, PID_BLOCK_LOAD_REPORT_ID) => h = g

----------------------------------------------------------------------------
(* The ways main returns *)

TransportOps == {"write", "send_feature", "get_feature"}

\* hid_open returned a handle: the first transport call has been made on it
Opened == \E k \in Entries : log[k].op \in TransportOps

IsExit(k) == log[k].op = "exit"

(* C22: every exit path of main that follows a successful hid_open releases *)
(* the device: when main has returned, hid_close on the handle and then      *)
(* hid_exit have been called, also when the effect could not be allocated.   *)
C22_ReleasedOnEveryExit ==
    (pc[1] = "returned" /\ Opened) =>
        \E k \in Entries : IsClose(k) /\ \E m \in Entries : m > k /\ IsExit(m)

(* C23: the exit status of main identifies the outcome and a failed         *)
(* initialization sends nothing: main returns -1 when hid_init fails, with   *)
(* no call made on any device; 1 when the device cannot be opened, with only *)
(* hid_exit called; 1 in main.c when the index read from Block Load is 0;    *)
(* and 0 from the end of main, which main.c reaches only with an index       *)
(* other than 0.  It returns from nowhere else.                              *)
C23_ExitStatus ==
    [][(pc[1] # "returned" /\ pc'[1] = "returned") =>
          CASE pc[1] = "init" -> ret'[1] = -1 /\ log' = <<>>
            [] pc[1] = "open" ->
                  /\ ret'[1] = 1
                  /\ \A k \in 1..Len(log') : log'[k].op \notin TransportOps
            [] pc[1] = "readindex" ->
                  /\ prog[1] = "main"
                  /\ index'[1] = 0
                  /\ ret'[1] = 1
            [] pc[1] = "exit" ->
                  /\ ret'[1] = 0
                  /\ prog[1] = "main" => index[1] # 0
            [] OTHER -> FALSE]_vars

\* main.c has returned 1 because the index it read was 0
C23_Witness ==
    /\ pc[1] = "returned"
    /\ ret[1] = 1
    /\ Opened
    /\ index[1] = 0

----------------------------------------------------------------------------
(* The bytes of a report the code does not assign *)

\* the number of leading bytes of the buffer the code assigns for the
\* report with the given id; the write sends more bytes than that
Assigned(id) ==
    CASE id = PID_DEVICE_CONTROL_REPORT_ID -> 2
      [] id = DEVICE_GAIN_REPORT_ID -> 2
      [] id = CREATE_NEW_EFFECT_REPORT_ID -> 2
      [] id = SET_CONSTANT_FORCE_REPORT_ID -> 4
      [] id = SET_ENVELOPE_REPORT_ID -> 14
      [] id = SET_EFFECT_REPORT_ID -> 22
      [] id = EFFECT_OPERATION_REPORT_ID -> 3
      [] OTHER -> 1

\* entry k is a report sent to the device
IsOutgoing(k) == log[k].op \in {"write", "send_feature"}

(* C24: each outgoing report is built from an all-zero buffer: in every     *)
(* report written, every transmitted byte after the ones the code assigns    *)
(* for that report (the byte at offset 3 of EffectOperation, the trailing    *)
(* byte of the others) is 0, so no byte of a Block Load or PID Pool response *)
(* or of an earlier report is sent again.                                    *)
C24_UnassignedBytesZero ==
    \A k \in Entries : IsOutgoing(k) =>
        /\ Len(log[k].data) > Assigned(log[k].data[1])
        /\ \A b \in (Assigned(log[k].data[1]) + 1)..Len(log[k].data) :
              log[k].data[b] = 0

\* a SET_CONSTANT_FORCE_REPORT follows a Block Load response whose byte 4
\* is not 0, and the Start report has been written as well
C24_Witness ==
    /\ \E k \in Entries :
          /\ IsLoadWithStatus(k, {BLOCK_LOAD_SUCCESS})
          /\ log[k].resp[5] # 0
          /\ k < Len(log)
          /\ IsWrite(k + 1, SET_CONSTANT_FORCE_REPORT_ID)
          /\ log[k + 1].data[5] = 0
    /\ \E k \in Entries : IsStart(k) /\ log[k].data[4] = 0

----------------------------------------------------------------------------
(* What read_once prints and when it waits *)

IsRead(k) == log[k].op = "hid_read"
IsSleep(k) == log[k].op = "sleep"
IsReadError(k) == log[k].op = "printf Unable to read()"
IsTimeout(k) == log[k].op = "printf read() timeout"
IsDataPrinted(k) == log[k].op = "printf Data read"

(* C25: in read_once a read error ends the wait at once: after an hid_read  *)
(* that returned a negative result the error is printed and nothing else     *)
(* follows, no read attempt, no delay, no timeout message and no data; data  *)
(* is printed only when the last attempt returned a positive byte count, and *)
(* then exactly the bytes read.                                              *)
C25_ReadErrorEndsWait ==
    /\ (res[1] < 0 /\ pc[1] # "rd_check") =>
          /\ pc[1] \in {"rd_data", "rd_return"}
          /\ IsReadError(Len(log))
          /\ IsRead(Len(log) - 1)
    /\ \A k \in Entries : IsReadError(k) =>
          /\ k = Len(log)
          /\ res[1] < 0
          /\ \A m \in Entries : ~IsTimeout(m) /\ ~IsDataPrinted(m)
    /\ \A k \in Entries : IsDataPrinted(k) =>
          /\ res[1] > 0
          /\ k = Len(log)
          /\ log[k].data = Sent(buf[1], res[1])
          /\ \E m \in 1..(k - 1) : IsRead(m) /\ \A n \in (m + 1)..(k - 1) : ~IsRead(n)

\* the fourth attempt failed after three that returned no data
C25_Witness ==
    /\ pc[1] = "rd_return"
    /\ res[1] < 0
    /\ Cardinality(Reads) = 4

\* the delays made so far
Sleeps == {k \in Entries : IsSleep(k)}

(* C26: read_once waits a fixed delay per attempt, "10 tries by 500 ms - 5  *)
(* seconds of waiting": when all attempts returned no data it has made       *)
(* exactly 10 read attempts and exactly 10 delays of 500 ms when it returns, *)
(* and when an attempt returned data no delay follows that attempt.          *)
C26_TenDelaysNoneAfterData ==
    /\ (pc[1] = "rd_return" /\ res[1] = 0) =>
          /\ Cardinality(Reads) = 10
          /\ Cardinality(Sleeps) = 10
          /\ \A k \in Sleeps : log[k].data = <<500>> /\ log[k].n = 1
    /\ res[1] > 0 => \A m \in Sleeps : \E k \in Reads : k > m

(* C27: read_once reads into the caller's buffer with the caller's length:  *)
(* every hid_read attempt requests exactly len bytes, so a report of up to   *)
(* len bytes can be returned whole.                                          *)
C27_ReadRequestsLen ==
    \A k \in Reads : log[k].data = <<arg>> /\ arg \in ReadResults(val)

----------------------------------------------------------------------------
(* The items of the report descriptor *)

\* The descriptor is a sequence of short items: a prefix byte whose bits 0-1
\* give the number of data bytes (0, 1, 2 or 4) and whose bits 2-7 give the
\* type and tag, followed by the data, low byte first.  The data of Logical
\* and Physical Minimum and Maximum and of Unit Exponent is a signed number.

\* Logical Maximum of Direction in the Set Effect Report
DirectionLogicalMaximum == <<39, 160, 140, 0, 0>>

\* mutant: the Unit Exponent item with the data bytes FC FF FF FF
UnitExponentItem_Fourth == <<87, 252, 255, 255, 255>>

\* Unit Exponent of Attack Time and Fade Time in the Set Envelope Report
UnitExponentItem == <<87, 253, 255, 255, 255>>

\* Logical Maximum of Attack Time and Fade Time
TimeLogicalMaximum == <<38, 255, 127>>

\* the items above, as they stand in the descriptor
DescriptorItems == {DirectionLogicalMaximum, UnitExponentItem, TimeLogicalMaximum}

\* the prefixes of the numeric global items the descriptor uses: Logical
\* Minimum and Maximum, Physical Minimum and Maximum, Unit Exponent with 1
\* data byte (0x15..0x55), 2 data bytes (0x16..0x46) and 4 (0x27, 0x47, 0x57)
ItemPrefixes == {21, 37, 53, 69, 85, 22, 38, 54, 70, 39, 71, 87}

\* data bytes items are tried with
ItemBytes == {0, 140, 160, 255}

\* the number of data bytes of the item with the given prefix
ItemSize(prefix) ==
    IF prefix % 4 = 3 THEN 4 ELSE prefix % 4

\* type and tag of the item: bits 2-7 of the prefix
ItemTag(prefix) == prefix \div 4

\* tag of Unit Exponent (0x55, 0x56, 0x57)
TAG_UNIT_EXPONENT == 21

\* the top data byte of a signed item counts as two's complement
SignedByte(b) ==
    IF b >= 128 THEN b - 256 ELSE b

\* the longest time, in seconds, and the largest number of decimal places
\* a time is scaled with
MaxSeconds == 2
MaxPlaces == 6

\* the times, in seconds, scaled by a unit exponent
TimeSeconds == 0..MaxSeconds

\* the unit exponents a time is scaled by
ScaledExponents == (0 - MaxPlaces)..0

\* an item of the descriptor is about to be read; arg is a time in seconds
InitItem ==
    /\ prog = [c \in {1} |-> "main"]
    /\ pc = [c \in {1} |-> "it_prefix"]
    /\ buf \in [{1} -> {Build(it) : it \in DescriptorItems}
                         \cup {Build(<<p>> \o SubSeq(d, 1, ItemSize(p))) :
                                  p \in ItemPrefixes, d \in [1..4 -> ItemBytes]}]
    /\ index = [c \in {1} |-> 0]
    /\ res = [c \in {1} |-> 0]
    /\ i = [c \in {1} |-> 0]
    /\ j = [c \in {1} |-> 0]
    /\ ret = [c \in {1} |-> 0]
    /\ dev = [alloc |-> {}, load |-> <<0, BLOCK_LOAD_ERROR>>, by |-> 0]
    /\ log = <<>>
    /\ arg \in TimeSeconds
    /\ val = 0

\* the prefix byte is read: j is the number of data bytes, i the number of
\* them still to read
ItemPrefix(c) ==
    /\ pc[c] = "it_prefix"
    /\ j' = [j EXCEPT ![c] = ItemSize(buf[c][0])]
    /\ i' = [i EXCEPT ![c] = ItemSize(buf[c][0])]
    /\ val' = 0
    /\ Goto(c, "it_data")
    /\ UNCHANGED <<arg, prog, buf, index, res, ret, dev, log>>

\* one data byte is read, from the top byte down to the low byte at buf[1]
ItemByte(c) ==
    /\ pc[c] = "it_data"
    /\ i[c] > 0
    /\ val' = val * 256 + (IF i[c] = j[c] THEN SignedByte(buf[c][i[c]])
                                          ELSE buf[c][i[c]])
    /\ i' = [i EXCEPT ![c] = i[c] - 1]
    /\ UNCHANGED <<arg, prog, pc, buf, index, res, j, ret, dev, log>>

\* all data bytes are read: val is the value of the item
ItemEnd(c) ==
    /\ pc[c] = "it_data"
    /\ i[c] = 0
    /\ Goto(c, "it_done")
    /\ UNCHANGED <<arg, val, prog, buf, index, res, i, j, ret, dev, log>>

\* the raw integer of a time of arg seconds in a field under unit exponent
\* val: arg * 10^(-val)
ScaleTime(c) ==
    /\ pc[c] = "it_done"
    /\ ItemTag(buf[c][0]) = TAG_UNIT_EXPONENT
    /\ val \in ScaledExponents
    /\ res' = [res EXCEPT ![c] = arg * (10 ^ (0 - val))]
    /\ Goto(c, "it_scaled")
    /\ UNCHANGED <<arg, val, prog, buf, index, i, j, ret, dev, log>>

NextItem ==
    \E c \in {1} :
        \/ ItemPrefix(c)
        \/ ItemByte(c)
        \/ ItemEnd(c)
        \/ ScaleTime(c)

SpecItem == InitItem /\ [][NextItem]_vars

(* C28: the direction bound the spec declares is the one the descriptor     *)
(* declares: the Logical Maximum of the SetEffect Direction field, read from *)
(* its bytes 0x27, 0xA0, 0x8C, 0x00, 0x00 as a little-endian 32-bit integer, *)
(* is 35999.                                                                 *)
C28_DirectionMaximumIs35999 ==
    (pc[1] = "it_done" /\ Sent(buf[1], 5) = DirectionLogicalMaximum) => val = 35999

\* the Unit Exponent item of the envelope times has been read
UnitExponentRead ==
    pc[1] \in {"it_done", "it_scaled"} /\ Sent(buf[1], 5) = UnitExponentItem

============================================================================
